---- MODULE Spec2Model ----
(***************************************************************************)
(* A model of the three scripts of the repository:                         *)
(*   viterbi.py  - Viterbi decoding over a supplied HMM (matrices A, B)    *)
(*   tagging.py  - POS model estimated from a tagged corpus, and its       *)
(*                 table-growing decoder                                   *)
(*   bigram.py   - word bigram model with four smoothing variants          *)
(* Each script is a batch run; its state is one record holding the script's*)
(* variables under their own names and a program counter pc.               *)
(*                                                                         *)
(* Probabilities.  viterbi.py works on supplied numbers: they are modelled *)
(* as natural-number weights (probabilities scaled by a common             *)
(* denominator), and products of floats as exact products.  tagging.py and *)
(* bigram.py divide counts: their values are modelled as exact fractions   *)
(* <<numerator, denominator>>.  Floating-point rounding is not modelled.   *)
(***************************************************************************)
EXTENDS Integers, Sequences, FiniteSets, TLC

VARIABLES viterbi, tagging, bigram

vars == <<viterbi, tagging, bigram>>

\* The record of a script that is not the one being run.
Idle == [pc |-> "idle"]

(***************************************************************************)
(* Bounds of the model.                                                    *)
(***************************************************************************)
\* Longest observation sequence given to viterbi.py.
MaxT == 3

(***************************************************************************)
(* Generic helpers.                                                        *)
(***************************************************************************)
\* max(...) of a non-empty set of integers.
SetMax(S) == CHOOSE x \in S : \A y \in S : y <= x

\* All sequences over S of length lo..hi.
SeqsUpTo(S, lo, hi) == UNION {[1 .. n -> S] : n \in lo .. hi}

(***************************************************************************)
(* viterbi.py                                                              *)
(***************************************************************************)
\* The pickled tag list and observation vocabulary (N = 2, M = 2).
VTags == <<"A", "B">>
VObservations == <<"x", "y">>

\* Words a test sentence may hold: the vocabulary and one word outside it.
VWords == {"x", "y", "z"}

\* Weights the entries of A are drawn from (0 = impossible transition).
AWeights == {0, 1, 2}

\* Rows the emission matrix B is drawn from, as B[s][0], B[s][1].
BRows == {(0 :> 2 @@ 1 :> 1), (0 :> 0 @@ 1 :> 3)}

\* list.index(obs): the first position holding obs, 0-based; -1 stands for
\* the ValueError raised when obs is not in the list.
IndexOrDefault(list, obs) ==
    IF \E i \in 1 .. Len(list) : list[i] = obs
    THEN (CHOOSE i \in 1 .. Len(list) :
             list[i] = obs /\ \A j \in 1 .. (i - 1) : list[j] # obs) - 1
    ELSE 0

Index(list, obs) ==
    IF \E i \in 1 .. Len(list) : list[i] = obs
    THEN (CHOOSE i \in 1 .. Len(list) :
             list[i] = obs /\ \A j \in 1 .. (i - 1) : list[j] # obs) - 1
    ELSE -1

\* A[1:].T[s][sp]: the transition weight from state sp to state s.
TransNoStartRow(A, sp, s) == A[sp][s]

Trans(A, sp, s) == A[sp + 1][s]

\* vAB[s][sp] = v[sp][t-1] * A[1:].T[s][sp] * B[s][o[t]]   (line 84)
VAB(A, B, o, v, t, s, sp) == v[sp][t - 1] * Trans(A, sp, s) * B[s][o[t + 1]]

\* np.max over a row given as a function on 0..n-1.
NpMax(row) == SetMax({row[i] : i \in DOMAIN row})

\* np.argmax: the first index holding the maximum.
NpArgmax(row) ==
    CHOOSE i \in DOMAIN row :
        /\ row[i] = NpMax(row)
        /\ \A j \in DOMAIN row : j < i => row[j] # NpMax(row)

VN == Len(VTags)

VStates == 0 .. (VN - 1)

ViterbiInit ==
    \E A \in [0 .. VN -> [VStates -> AWeights]],
       B \in [VStates -> BRows],
       words \in SeqsUpTo(VWords, 0, MaxT) :
        /\ viterbi = [pc |-> "map", A |-> A, B |-> B, tags |-> VTags,
                      observations |-> VObservations, words |-> words,
                      o |-> <<>>, v |-> <<>>, bt |-> <<>>, t |-> 0,
                      best_score |-> 0, tag |-> 0, out |-> <<>>,
                      printed |-> <<>>]
        /\ tagging = Idle
        /\ bigram = Idle

\* o = [observations.index(obs) for obs in words]; N, T       (lines 65-69)
ViterbiMapObs ==
    /\ viterbi.pc = "map"
    /\ LET o == [i \in 1 .. Len(viterbi.words) |->
                    Index(viterbi.observations, viterbi.words[i])]
       IN IF \E i \in 1 .. Len(o) : o[i] = -1
          THEN viterbi' = [viterbi EXCEPT !.pc = "error"]
          ELSE viterbi' = [viterbi EXCEPT !.pc = "init", !.o = o]
    /\ UNCHANGED <<tagging, bigram>>

\* v = zeros; v[:, 0] = A[0] * B[:, o[0], 0]; bt = zeros       (lines 73-77)
ViterbiInitStep ==
    /\ viterbi.pc = "init"
    /\ LET T == Len(viterbi.o)
       IN IF T = 0
          THEN viterbi' = [viterbi EXCEPT !.pc = "error"]
          ELSE viterbi' = [viterbi EXCEPT
                  !.pc = "loop", !.t = 1,
                  !.v = [s \in VStates |-> [t \in 0 .. (T - 1) |->
                            IF t = 0
                            THEN viterbi.A[0][s] * viterbi.B[s][viterbi.o[1]]
                            ELSE 0]],
                  !.bt = [s \in VStates |-> [t \in 0 .. (T - 1) |-> 0]]]
    /\ UNCHANGED <<tagging, bigram>>

\* One pass of "for t in range(1, T)"                          (lines 81-88)
ViterbiRecur ==
    /\ viterbi.pc = "loop"
    /\ viterbi.t < Len(viterbi.o)
    /\ LET t == viterbi.t
           vAB == [s \in VStates |-> [sp \in VStates |->
                     VAB(viterbi.A, viterbi.B, viterbi.o, viterbi.v, t, s, sp)]]
       IN viterbi' = [viterbi EXCEPT
              !.t = t + 1,
              !.v = [s \in VStates |->
                        [viterbi.v[s] EXCEPT ![t] = NpMax(vAB[s])]],
              !.bt = [s \in VStates |->
                        [viterbi.bt[s] EXCEPT ![t] = NpArgmax(vAB[s])]]]
    /\ UNCHANGED <<tagging, bigram>>

\* best_score, tag, first piece of out                         (lines 92-96)
ViterbiTerminate ==
    /\ viterbi.pc = "loop"
    /\ viterbi.t >= Len(viterbi.o)
    /\ LET T == Len(viterbi.o)
           last == [s \in VStates |-> viterbi.v[s][T - 1]]
           tag == NpArgmax(last)
       IN viterbi' = [viterbi EXCEPT
              !.pc = "back", !.t = T - 1,
              !.best_score = NpMax(last), !.tag = tag,
              !.out = <<<<viterbi.words[T], viterbi.tags[tag + 1]>>>>]
    /\ UNCHANGED <<tagging, bigram>>

\* One pass of "for t in reversed(range(1, T))"                (lines 99-101)
ViterbiBacktrace ==
    /\ viterbi.pc = "back"
    /\ viterbi.t >= 1
    /\ LET t == viterbi.t
           tag == viterbi.bt[viterbi.tag][t]
       IN viterbi' = [viterbi EXCEPT
              !.t = t - 1, !.tag = tag,
              !.out = <<<<viterbi.words[t], viterbi.tags[tag + 1]>>>>
                        \o viterbi.out]
    /\ UNCHANGED <<tagging, bigram>>

\* The three print calls                                       (lines 104-106)
ViterbiPrint ==
    /\ viterbi.pc = "back"
    /\ viterbi.t < 1
    /\ viterbi' = [viterbi EXCEPT
           !.pc = "done",
           !.printed = <<viterbi.best_score, viterbi.out>>]
    /\ UNCHANGED <<tagging, bigram>>

ViterbiNext ==
    \/ ViterbiMapObs
    \/ ViterbiInitStep
    \/ ViterbiRecur
    \/ ViterbiTerminate
    \/ ViterbiBacktrace
    \/ ViterbiPrint

SpecViterbi == ViterbiInit /\ [][ViterbiNext]_vars

(***************************************************************************)
(* Claims about viterbi.py                                                 *)
(***************************************************************************)
\* The joint weight of the state sequence q (0-based states, one per
\* observation) for the observation indices o, as the claim writes it.
RECURSIVE PathScoreUpTo(_, _, _, _, _)
PathScoreUpTo(A, B, o, q, n) ==
    IF n = 1 THEN A[0][q[1]] * B[q[1]][o[1]]
    ELSE PathScoreUpTo(A, B, o, q, n - 1) * A[q[n - 1] + 1][q[n]] * B[q[n]][o[n]]

PathScore(A, B, o, q) == PathScoreUpTo(A, B, o, q, Len(o))

\* The state sequence named by the emitted word_tag pieces.
OutStates == [i \in 1 .. Len(viterbi.out) |-> Index(viterbi.tags, viterbi.out[i][2])]

OutWords == [i \in 1 .. Len(viterbi.out) |-> viterbi.out[i][1]]

\* C1: when the decoder has printed, the reported score is the maximum of
\* the joint weight over all N^T state sequences, and the emitted tags,
\* one per observation in observation order, are a sequence attaining it.
C1_ViterbiOptimal ==
    viterbi.pc = "done" =>
        LET T == Len(viterbi.words)
            o == [i \in 1 .. T |-> Index(viterbi.observations, viterbi.words[i])]
            Paths == [1 .. T -> VStates]
        IN /\ T >= 1
           /\ viterbi.printed[1] =
                 SetMax({PathScore(viterbi.A, viterbi.B, o, q) : q \in Paths})
           /\ viterbi.printed[2] = viterbi.out
           /\ OutWords = viterbi.words
           /\ OutStates \in Paths
           /\ PathScore(viterbi.A, viterbi.B, o, OutStates) = viterbi.printed[1]

\* C1 witness: a finished decoding of a full-length sentence with a positive
\* score whose best path changes state.
C1_Witness ==
    /\ viterbi.pc = "done"
    /\ Len(viterbi.words) = MaxT
    /\ viterbi.printed[1] > 0
    /\ \E i \in 1 .. (Len(viterbi.out) - 1) :
           viterbi.out[i][2] # viterbi.out[i + 1][2]

HasOOV == \E i \in 1 .. Len(viterbi.words) :
              \A j \in 1 .. Len(viterbi.observations) :
                  viterbi.observations[j] # viterbi.words[i]

\* C10: when a word of the observation sequence is not in the observation
\* vocabulary, the run stops in the error state at the index mapping: no
\* index list, no lattice cell, no backpointer and no output ever exists.
C10_OOVAborts ==
    HasOOV =>
        /\ viterbi.pc \in {"map", "error"}
        /\ viterbi.o = <<>>
        /\ viterbi.v = <<>>
        /\ viterbi.bt = <<>>
        /\ viterbi.out = <<>>
        /\ viterbi.printed = <<>>

\* C10 witness: the mapping step has run on a sentence whose first word is in
\* the vocabulary and a later one is not, and the run is in the error state.
C10_Witness ==
    /\ HasOOV
    /\ viterbi.pc = "error"
    /\ Len(viterbi.words) >= 2
    /\ viterbi.words[1] = viterbi.observations[1]

(***************************************************************************)
(* Exact fractions <<numerator, denominator>>, kept in lowest terms, for   *)
(* the quotients of counts the scripts compute with "/".                   *)
(***************************************************************************)
RECURSIVE GCD(_, _)
GCD(a, b) == IF b = 0 THEN a ELSE GCD(b, a % b)

Frac(n, d) == IF n = 0 THEN <<0, 1>> ELSE <<n \div GCD(n, d), d \div GCD(n, d)>>

FMul(x, y) == Frac(x[1] * y[1], x[2] * y[2])

FAdd(x, y) == Frac(x[1] * y[2] + y[1] * x[2], x[2] * y[2])

FLess(x, y) == x[1] * y[2] < y[1] * x[2]

\* Sum of f[k] over the keys k in S, f a dict of fractions.
RECURSIVE FSum(_, _)
FSum(f, S) ==
    IF S = {} THEN <<0, 1>>
    ELSE LET k == CHOOSE x \in S : TRUE IN FAdd(f[k], FSum(f, S \ {k}))

\* Sum of f[k] over the keys k in S, f a dict of integers.
RECURSIVE ISum(_, _)
ISum(f, S) ==
    IF S = {} THEN 0
    ELSE LET k == CHOOSE x \in S : TRUE IN f[k] + ISum(f, S \ {k})

\* dict(): no keys.
EmptyDict == [k \in {} |-> 0]

\* d.update({k: v})
Put(d, k, v) == [x \in DOMAIN d \cup {k} |-> IF x = k THEN v ELSE d[x]]

\* if k in d: d[k] += 1 / else: d.update({k: 1})
Inc(d, k) == IF k \in DOMAIN d THEN Put(d, k, d[k] + 1) ELSE Put(d, k, 1)

(***************************************************************************)
(* bigram.py                                                               *)
(* A token is a string, modelled as its sequence of characters.  The two   *)
(* sentence markers are the integers 0 and 1 in the script, equal to no    *)
(* string; they and None are modelled as one-element sequences holding an  *)
(* atom that is no character.                                              *)
(***************************************************************************)
\* Longest training corpus, in lines.
MaxLines == 2

\* Longest training sentence, in tokens.
MaxSentLen == 3

\* Longest test sentence, in tokens.
MaxTestLen == 2

START_OF_SENTENCE == <<"<0>">>

END_OF_SENTENCE == <<"<1>">>

None == <<"<None>">>

\* Raw tokens of training lines and of the test line.
TrainTokens == {<<"a", "_", "N">>, <<"B">>}

TestTokens == {<<"A">>, <<"b", "_", "V">>, <<"c">>}

SmoothingTypes == {"none", "add-one", "good-turing", "add-one-fast"}

\* str.lower() on the letters of the model.
LowerChar(c) == IF c = "A" THEN "a" ELSE IF c = "B" THEN "b" ELSE c

Lower(tok) == [i \in 1 .. Len(tok) |-> LowerChar(tok[i])]

\* t.split("_")[0]: the part before the first underscore.
RECURSIVE SplitFirst(_)
SplitFirst(tok) ==
    IF tok = <<>> \/ Head(tok) = "_" THEN <<>>
    ELSE <<Head(tok)>> \o SplitFirst(Tail(tok))

\* [START] + sentence.lower().split() + [END], each token reduced to its word
\* portion                                         (lines 74-82, 186-198)
Tokens(sentence) ==
    <<START_OF_SENTENCE>>
        \o [i \in 1 .. Len(sentence) |-> SplitFirst(Lower(sentence[i]))]
        \o <<END_OF_SENTENCE>>

\* The token loop of one training sentence from position i on, as the pair
\* <<unigramCount, bigramCount>>                                (lines 77-94)
RECURSIVE CountFrom(_, _, _, _, _)
CountFrom(uc, bc, toks, i, prevToken) ==
    IF i > Len(toks) THEN <<uc, bc>>
    ELSE LET token == toks[i]
         IN CountFrom(Inc(uc, token),
                      IF prevToken # None THEN Inc(bc, <<token, prevToken>>) ELSE bc,
                      toks, i + 1, token)

\* One pass of "for sentence in lines", prevToken carried over from the
\* previous sentence's last token instead of being reset.
CountSentenceNoReset(uc, bc, sentence) ==
    CountFrom(uc, bc, Tokens(sentence), 1,
              IF uc = EmptyDict THEN None ELSE END_OF_SENTENCE)

\* One pass of "for sentence in lines"                          (lines 68-94)
CountSentence(uc, bc, sentence) == CountFrom(uc, bc, Tokens(sentence), 1, None)

\* unigramProb                                                  (lines 97-99)
UnigramProb(uc) ==
    LET totalWordCount == ISum(uc, DOMAIN uc)
    IN [token \in DOMAIN uc |-> Frac(uc[token], totalWordCount)]

\* smoothing "none"                                             (lines 105-111)
SmoothNone(uc, bc) ==
    Put([k \in DOMAIN bc |-> Frac(bc[k], uc[k[2]])], <<None, None>>, <<0, 1>>)

\* V = len(unigramCount.keys())                                 (line 118)
VocabSize(uc) == Cardinality(DOMAIN uc)

\* smoothing "add-one" (eager = TRUE) and "add-one-fast"        (lines 118-133)
SmoothAddOne(uc, bc, eager) ==
    LET V == VocabSize(uc)
        seen == [k \in DOMAIN bc |-> Frac(bc[k] + 1, uc[k[2]] + V)]
        unseen == {<<token, prevToken>> : token \in DOMAIN uc, prevToken \in DOMAIN uc}
        fill == {k \in unseen : /\ k[2] # END_OF_SENTENCE
                                /\ k \notin DOMAIN seen
                                /\ k[1] # START_OF_SENTENCE}
    IN IF eager
       THEN [k \in DOMAIN seen \cup fill |->
                IF k \in DOMAIN seen THEN seen[k] ELSE Frac(1, uc[k[2]] + V)]
       ELSE seen

\* n_i = sum(c == n for c in bigramCount.values())              (lines 146, 155, 160)
CountOfCount(bc, n) == Cardinality({k \in DOMAIN bc : bc[k] = n})

\* The memo Nc after the loop: N_1, and N_c, N_(c+1) for each count c seen.
NcMemo(bc) ==
    LET cs == {bc[k] : k \in DOMAIN bc}
    IN [n \in {1} \cup cs \cup {c + 1 : c \in cs} |-> CountOfCount(bc, n)]

\* c* of a count, as a fraction, with the numerator taken from N_c itself.
NewCountSameClass(Nc, bCount) ==
    IF Nc[bCount] # 0 THEN Frac((bCount + 1) * Nc[bCount], Nc[bCount])
    ELSE <<0, 1>>

\* newCount = (bCount+1) * Nc[bCount+1] / Nc[bCount], 0 when Nc[bCount] = 0
\*                                                              (lines 164-165)
NewCount(Nc, bCount) ==
    IF Nc[bCount] # 0 THEN Frac((bCount + 1) * Nc[bCount + 1], Nc[bCount])
    ELSE <<0, 1>>

\* smoothing "good-turing"; needs N # 0                         (lines 140-171)
SmoothGoodTuring(bc) ==
    LET N == ISum(bc, DOMAIN bc)
        Nc == NcMemo(bc)
    IN Put([k \in DOMAIN bc |-> FMul(NewCount(Nc, bc[k]), <<1, N>>)],
           <<None, None>>, Frac(Nc[1], N))

\* The table bigramProb for a smoothing type.
BuildTable(smoothing_type, uc, bc) ==
    CASE smoothing_type = "none" -> SmoothNone(uc, bc)
      [] smoothing_type = "add-one" -> SmoothAddOne(uc, bc, TRUE)
      [] smoothing_type = "add-one-fast" -> SmoothAddOne(uc, bc, FALSE)
      [] OTHER -> SmoothGoodTuring(bc)

\* The factor P(token|prevToken) the test loop multiplies in, or the KeyError
\* it raises (ok = FALSE)                                       (lines 204-208)
Factor(smoothing_type, bigramProb, uc, V, token, prevToken) ==
    IF <<token, prevToken>> \in DOMAIN bigramProb
    THEN [ok |-> TRUE, val |-> bigramProb[<<token, prevToken>>]]
    ELSE IF smoothing_type = "add-one-fast"
    THEN IF prevToken \in DOMAIN uc
         THEN [ok |-> TRUE, val |-> Frac(1, uc[prevToken] + V)]
         ELSE [ok |-> FALSE, val |-> <<0, 1>>]
    ELSE IF <<None, None>> \in DOMAIN bigramProb
    THEN [ok |-> TRUE, val |-> bigramProb[<<None, None>>]]
    ELSE [ok |-> FALSE, val |-> <<0, 1>>]

\* No test file on the command line.
NoTestFile == <<None>>

\* The state after the command line and TrainingSet.txt are read, the test
\* file (if one is named) being one of test_files              (lines 42-65)
BigramInitWith(test_files) ==
    \E smoothing_type \in SmoothingTypes,
       lines \in SeqsUpTo(SeqsUpTo(TrainTokens, 0, MaxSentLen), 0, MaxLines),
       test \in test_files :
        /\ bigram = [pc |-> "train", smoothing_type |-> smoothing_type,
                     lines |-> lines, test_file |-> test, n |-> 1,
                     unigramCount |-> EmptyDict, bigramCount |-> EmptyDict,
                     unigramProb |-> EmptyDict, bigramProb |-> EmptyDict,
                     V |-> 0, tokens |-> <<>>, i |-> 1, prevToken |-> None,
                     prob |-> <<1, 1>>, printed |-> <<>>]
        /\ viterbi = Idle
        /\ tagging = Idle

\* One pass of "for sentence in lines"                          (lines 68-94)
BigramTrain ==
    /\ bigram.pc = "train"
    /\ bigram.n <= Len(bigram.lines)
    /\ LET c == CountSentence(bigram.unigramCount, bigram.bigramCount,
                              bigram.lines[bigram.n])
       IN bigram' = [bigram EXCEPT !.n = @ + 1, !.unigramCount = c[1],
                                   !.bigramCount = c[2]]
    /\ UNCHANGED <<viterbi, tagging>>

\* Unigram probabilities and the smoothed table                 (lines 97-171)
BigramSmooth ==
    /\ bigram.pc = "train"
    /\ bigram.n > Len(bigram.lines)
    /\ LET uc == bigram.unigramCount
           bc == bigram.bigramCount
           t == bigram.smoothing_type
       IN IF t = "good-turing" /\ ISum(bc, DOMAIN bc) = 0
          THEN bigram' = [bigram EXCEPT !.pc = "error",
                                        !.unigramProb = UnigramProb(uc)]
          ELSE bigram' = [bigram EXCEPT
                  !.pc = IF bigram.test_file = NoTestFile THEN "display"
                         ELSE "test",
                  !.unigramProb = UnigramProb(uc),
                  !.V = IF t \in {"add-one", "add-one-fast"} THEN VocabSize(uc)
                        ELSE 0,
                  !.bigramProb = BuildTable(t, uc, bc),
                  !.tokens = IF bigram.test_file = NoTestFile THEN <<>>
                             ELSE Tokens(bigram.test_file)]
    /\ UNCHANGED <<viterbi, tagging>>

\* One pass of the test loop "for t in [START] + tokens + [END]" (lines 193-211)
BigramTest ==
    /\ bigram.pc = "test"
    /\ bigram.i <= Len(bigram.tokens)
    /\ LET token == bigram.tokens[bigram.i]
           f == Factor(bigram.smoothing_type, bigram.bigramProb,
                       bigram.unigramCount, bigram.V, token, bigram.prevToken)
       IN IF bigram.prevToken = None
          THEN bigram' = [bigram EXCEPT !.i = @ + 1, !.prevToken = token]
          ELSE IF f.ok
          THEN bigram' = [bigram EXCEPT !.i = @ + 1, !.prevToken = token,
                                        !.prob = FMul(@, f.val)]
          ELSE bigram' = [bigram EXCEPT !.pc = "error"]
    /\ UNCHANGED <<viterbi, tagging>>

\* print("Probability of test sentence = ...")                  (line 214)
BigramPrint ==
    /\ bigram.pc = "test"
    /\ bigram.i > Len(bigram.tokens)
    /\ bigram' = [bigram EXCEPT !.pc = "done", !.printed = <<bigram.prob>>]
    /\ UNCHANGED <<viterbi, tagging>>

\* The dump of counts and probabilities                         (lines 217-241)
BigramDisplay ==
    /\ bigram.pc = "display"
    /\ bigram' = [bigram EXCEPT
           !.pc = "done",
           !.printed = <<bigram.unigramCount, bigram.bigramCount,
                         bigram.unigramProb, bigram.bigramProb>>]
    /\ UNCHANGED <<viterbi, tagging>>

BigramNext ==
    \/ BigramTrain
    \/ BigramSmooth
    \/ BigramTest
    \/ BigramPrint
    \/ BigramDisplay

\* python bigram.py <smoothing-type> [<input-test-file>]
BigramInit == BigramInitWith({NoTestFile} \cup SeqsUpTo(TestTokens, 0, MaxTestLen))

SpecBigram == BigramInit /\ [][BigramNext]_vars

BigramDisplayNext ==
    \/ BigramTrain
    \/ BigramSmooth
    \/ BigramDisplay

\* python bigram.py <smoothing-type>: the model is built and displayed.
BigramDisplayInit == BigramInitWith({NoTestFile})

SpecBigramDisplay == BigramDisplayInit /\ [][BigramDisplayNext]_vars

\* The whole test loop from position i on: the sentence probability, or the
\* KeyError that ends the run (ok = FALSE)                      (lines 189-211)
RECURSIVE ScoreFrom(_, _, _, _, _, _, _, _)
ScoreFrom(smoothing_type, bigramProb, uc, V, toks, i, prevToken, prob) ==
    IF i > Len(toks) THEN [ok |-> TRUE, val |-> prob]
    ELSE IF prevToken = None
    THEN ScoreFrom(smoothing_type, bigramProb, uc, V, toks, i + 1, toks[i], prob)
    ELSE LET f == Factor(smoothing_type, bigramProb, uc, V, toks[i], prevToken)
         IN IF f.ok
            THEN ScoreFrom(smoothing_type, bigramProb, uc, V, toks, i + 1,
                           toks[i], FMul(prob, f.val))
            ELSE f

\* The outcome of scoring the run's test sentence under a smoothing type.
SentenceProbability(smoothing_type) ==
    ScoreFrom(smoothing_type,
              BuildTable(smoothing_type, bigram.unigramCount, bigram.bigramCount),
              bigram.unigramCount, VocabSize(bigram.unigramCount),
              bigram.tokens, 1, None, <<1, 1>>)

(***************************************************************************)
(* Claims about bigram.py                                                  *)
(***************************************************************************)
BigramTrained == bigram.pc \in {"test", "display", "done"}

AddOneRun == bigram.smoothing_type \in {"add-one", "add-one-fast"}

\* The factor a smoothing type uses for the pair the test loop is about to
\* query.
NextFactor(smoothing_type) ==
    Factor(smoothing_type,
           BuildTable(smoothing_type, bigram.unigramCount, bigram.bigramCount),
           bigram.unigramCount, VocabSize(bigram.unigramCount),
           bigram.tokens[bigram.i], bigram.prevToken)

\* C5 (as claimed): for every pair (s, p) the test loop queries, add-one and
\* add-one-fast both use (count(s,p)+1)/(count(p)+V) when (s, p) occurs in
\* training and 1/(count(p)+V) when it does not, s seen in training or not;
\* and both variants end with the same sentence probability.
C5_EagerLazySame ==
    /\ (/\ bigram.pc = "test" /\ AddOneRun
        /\ bigram.i <= Len(bigram.tokens) /\ bigram.prevToken # None
        /\ bigram.prevToken \in DOMAIN bigram.unigramCount)
       => LET s == bigram.tokens[bigram.i]
              p == bigram.prevToken
              V == VocabSize(bigram.unigramCount)
              expected ==
                  IF <<s, p>> \in DOMAIN bigram.bigramCount
                  THEN Frac(bigram.bigramCount[<<s, p>>] + 1,
                            bigram.unigramCount[p] + V)
                  ELSE Frac(1, bigram.unigramCount[p] + V)
          IN /\ NextFactor("add-one") = [ok |-> TRUE, val |-> expected]
             /\ NextFactor("add-one-fast") = [ok |-> TRUE, val |-> expected]
    /\ (bigram.pc = "done" /\ AddOneRun /\ bigram.test_file # NoTestFile)
       => /\ SentenceProbability("add-one") = [ok |-> TRUE, val |-> bigram.prob]
          /\ SentenceProbability("add-one-fast") = [ok |-> TRUE, val |-> bigram.prob]

\* The sum of the add-one table's entries for predecessor p.
RowSum(p) ==
    FSum(bigram.bigramProb,
         {k \in DOMAIN bigram.bigramProb :
             k[2] = p /\ k[1] \in DOMAIN bigram.unigramCount})

\* C6 (as claimed): under add-one, for every predecessor p of the vocabulary
\* other than the end marker, the table holds a probability for each of the
\* V symbols of the vocabulary and these probabilities sum to exactly 1.
C6_AddOneNormalized ==
    (BigramTrained /\ bigram.smoothing_type = "add-one")
    => \A p \in DOMAIN bigram.unigramCount \ {END_OF_SENTENCE} :
           /\ \A s \in DOMAIN bigram.unigramCount :
                  <<s, p>> \in DOMAIN bigram.bigramProb
           /\ RowSum(p) = <<1, 1>>

\* Nc(1)/N plus the sum of c*/N over the observed bigram types.
GoodTuringMass == FSum(bigram.bigramProb, DOMAIN bigram.bigramProb)

GoodTuringBuilt == BigramTrained /\ bigram.smoothing_type = "good-turing"

\* C7 (as claimed): for every corpus of at least one sentence the
\* good-turing mass is at most 1 and strictly greater than 0.
C7_MassPositive ==
    (GoodTuringBuilt /\ Len(bigram.lines) >= 1)
    => /\ ~ FLess(<<1, 1>>, GoodTuringMass)
       /\ FLess(<<0, 1>>, GoodTuringMass)

\* Some bigram occurs exactly once, or two bigrams have counts c and c+1.
HasAdjacentCounts ==
    \/ CountOfCount(bigram.bigramCount, 1) > 0
    \/ \E k \in DOMAIN bigram.bigramCount :
           CountOfCount(bigram.bigramCount, bigram.bigramCount[k] + 1) > 0

\* C7 (amended): for every corpus of at least one sentence the good-turing
\* mass is at most 1 and at least 0, and it is strictly greater than 0
\* exactly when some bigram type occurs once or two bigram types have
\* counts c and c+1.
C7_MassBounded ==
    (GoodTuringBuilt /\ Len(bigram.lines) >= 1)
    => /\ ~ FLess(<<1, 1>>, GoodTuringMass)
       /\ ~ FLess(GoodTuringMass, <<0, 1>>)
       /\ FLess(<<0, 1>>, GoodTuringMass) <=> HasAdjacentCounts

\* C7 witness: a two-sentence corpus whose table holds a bigram with a
\* positive adjusted count and whose mass is positive but below 1.
C7_Witness ==
    /\ GoodTuringBuilt
    /\ Len(bigram.lines) = 2
    /\ FLess(<<0, 1>>, GoodTuringMass)
    /\ FLess(GoodTuringMass, <<1, 1>>)
    /\ \E k \in DOMAIN bigram.bigramCount : FLess(<<0, 1>>, bigram.bigramProb[k])

\* C8: after the training pass, for every symbol p other than the end marker
\* the counts of the bigrams with predecessor p sum to the unigram count of
\* p; no bigram has the end marker as predecessor, none has the start marker
\* as current symbol, and every bigram's two symbols are counted symbols.
C8_CountsConsistent ==
    BigramTrained
    => LET uc == bigram.unigramCount
           bc == bigram.bigramCount
       IN /\ \A p \in DOMAIN uc \ {END_OF_SENTENCE} :
                 ISum(bc, {k \in DOMAIN bc : k[2] = p}) = uc[p]
          /\ \A k \in DOMAIN bc :
                 /\ k[2] # END_OF_SENTENCE
                 /\ k[1] # START_OF_SENTENCE
                 /\ k[1] \in DOMAIN uc
                 /\ k[2] \in DOMAIN uc

\* C8 witness: two sentences have been counted, a word occurs in both and is
\* followed by two different symbols.
C8_Witness ==
    /\ BigramTrained
    /\ Len(bigram.lines) = 2
    /\ \E p \in DOMAIN bigram.unigramCount :
           /\ p \notin {START_OF_SENTENCE, END_OF_SENTENCE}
           /\ bigram.unigramCount[p] >= 2
           /\ Cardinality({k \in DOMAIN bigram.bigramCount : k[2] = p}) >= 2

(***************************************************************************)
(* tagging.py                                                              *)
(* Words, tags and tokens are strings, modelled as sequences of            *)
(* characters.  unigramTagCount and the tables of prob are dicts whose     *)
(* iteration order the script depends on: they are modelled as sequences   *)
(* of <<key, value>> in insertion order.  bigramCount and bigramProb are   *)
(* only looked up by key and are functions.  A set of strings iterates in  *)
(* an order fixed by the run's string hashing: the order of each tag set   *)
(* is chosen once per run.                                                 *)
(***************************************************************************)
\* Longest training corpus, in lines.
MaxTagLines == 2

\* Longest training sentence, in tokens.
MaxTagSentLen == 3

\* Longest test sentence, in words.
MaxWords == 3

\* Most copies of the one-sentence corpus in a training file.
MaxMinimalLines == 2

TAG_START == <<"<", "s", ">">>

TAG_END == <<"<", "/", "s", ">">>

\* The key (None, None, None) of bigramProb.
NoneKey == <<None, None, "None">>

\* Tokens of the training lines and words of the test line.
LetterTokens == {<<"a", "_", "N">>, <<"a", "_", "V">>, <<"b", "_", "N">>}

LetterWords == {<<"a">>, <<"b">>, <<"c">>}

\* The one-sentence corpus The_DET dog_NOUN runs_VERB and its words.
MinimalSentence ==
    << <<"T", "h", "e", "_", "D", "E", "T">>,
       <<"d", "o", "g", "_", "N", "O", "U", "N">>,
       <<"r", "u", "n", "s", "_", "V", "E", "R", "B">> >>

\* The test sentence The dog runs.
MinimalTest == <<<<"T", "h", "e">>, <<"d", "o", "g">>, <<"r", "u", "n", "s">>>>

\* The non-empty runs of consecutive words of a sentence.
SubSentences(sentence) ==
    {SubSeq(sentence, i, j) : i \in 1 .. Len(sentence), j \in 1 .. Len(sentence)}
        \ {<<>>}

\* Insertion-ordered dicts.
OKeys(d) == [i \in 1 .. Len(d) |-> d[i][1]]

OHas(d, k) == \E i \in 1 .. Len(d) : d[i][1] = k

OGet(d, k) == d[CHOOSE i \in 1 .. Len(d) : d[i][1] = k][2]

\* d.update({k: v}): a present key keeps its place.
OPut(d, k, v) ==
    IF OHas(d, k)
    THEN [i \in 1 .. Len(d) |-> IF d[i][1] = k THEN <<k, v>> ELSE d[i]]
    ELSE Append(d, <<k, v>>)

OInc(d, k) == IF OHas(d, k) THEN OPut(d, k, OGet(d, k) + 1) ELSE OPut(d, k, 1)

\* max(keys, key=d.get): the first of keys whose value is the greatest.
OArgmax(d, keys) ==
    keys[CHOOSE i \in 1 .. Len(keys) :
            /\ \A j \in 1 .. Len(keys) : ~ FLess(OGet(d, keys[i]), OGet(d, keys[j]))
            /\ \A j \in 1 .. (i - 1) : FLess(OGet(d, keys[j]), OGet(d, keys[i]))]

\* max(unigramTagCount, key=unigramTagCount.get)                (line 126)
MostCommonTag(uni) ==
    uni[CHOOSE i \in 1 .. Len(uni) :
           /\ \A j \in 1 .. Len(uni) : uni[j][2] <= uni[i][2]
           /\ \A j \in 1 .. (i - 1) : uni[j][2] < uni[i][2]][1]

\* token.split("_")
RECURSIVE Split(_)
Split(tok) ==
    IF \E i \in 1 .. Len(tok) : tok[i] = "_"
    THEN LET i == CHOOSE i \in 1 .. Len(tok) :
                      tok[i] = "_" /\ \A j \in 1 .. (i - 1) : tok[j] # "_"
         IN <<SubSeq(tok, 1, i - 1)>> \o Split(SubSeq(tok, i + 1, Len(tok)))
    ELSE <<tok>>

\* set(tag): the set of the characters of the string tag        (line 71)
CharSet(tag) == {<<tag[i]>> : i \in 1 .. Len(tag)}

\* if word in tags: tags[word].add(tag) / else: tags.update({word: set(tag)})
\*                                                              (lines 70-71)
AddTag(tags, word, tag) ==
    IF word \in DOMAIN tags THEN Put(tags, word, tags[word] \cup {tag})
    ELSE Put(tags, word, CharSet(tag))

\* The token loop of one training sentence from position i on   (lines 62-86)
RECURSIVE TagCountFrom(_, _, _, _, _, _)
TagCountFrom(tags, uni, bc, toks, i, prevTag) ==
    IF i > Len(toks)
    THEN [tags |-> tags, uni |-> uni, bc |-> bc, prevTag |-> prevTag]
    ELSE LET word_pos == Split(toks[i])
             word == word_pos[1]
             tag == word_pos[2]
         IN TagCountFrom(AddTag(tags, word, tag), OInc(uni, tag),
                         Inc(Inc(bc, <<word, tag, "W">>), <<tag, prevTag, "T">>),
                         toks, i + 1, tag)

\* One pass of "for sentence in lines"                          (lines 53-94)
TagCountSentence(tags, uni, bc, sentence) ==
    LET r == TagCountFrom(tags, uni, bc, sentence, 1, TAG_START)
    IN [tags |-> r.tags,
        uni |-> OInc(r.uni, TAG_START),
        bc |-> Inc(r.bc, <<TAG_END, r.prevTag, "T">>)]

\* bigramProb with no smoothing                                 (lines 99-105)
TagBigramProb(uni, bc) ==
    Put([k \in DOMAIN bc |-> Frac(bc[k], OGet(uni, k[2]))], NoneKey, <<0, 1>>)

\* The orders in which a set can iterate.
Orders(S) ==
    {q \in [1 .. Cardinality(S) -> S] : \A i, j \in DOMAIN q : i # j => q[i] # q[j]}

\* The two loops over prob[-1] and word_tags with each entry recorded under
\* the key (tag, prevPrevTag).
RECURSIVE ExpandKeyedByPrevPrev(_, _, _, _, _, _, _)
ExpandKeyedByPrevPrev(cur_prob, prev, word_tags, word, last, bigramProb, j) ==
    IF j >= Len(prev) * Len(word_tags) THEN cur_prob
    ELSE LET e == prev[(j \div Len(word_tags)) + 1]
             prevTag == e[1][1]
             prevPrevTag == e[1][2]
             prev_prob == e[2]
             tag == word_tags[(j % Len(word_tags)) + 1]
             kept == /\ <<word, tag, "W">> \in DOMAIN bigramProb
                     /\ <<tag, prevTag, "T">> \in DOMAIN bigramProb
                     /\ last => <<TAG_END, tag, "T">> \in DOMAIN bigramProb
             cur_prob_val ==
                 LET wt == FMul(FMul(prev_prob, bigramProb[<<word, tag, "W">>]),
                                bigramProb[<<tag, prevTag, "T">>])
                 IN IF last THEN FMul(wt, bigramProb[<<TAG_END, tag, "T">>])
                    ELSE wt
         IN ExpandKeyedByPrevPrev(
                IF kept THEN OPut(cur_prob, <<tag, prevPrevTag>>, cur_prob_val)
                ELSE cur_prob,
                prev, word_tags, word, last, bigramProb, j + 1)

\* The body of the two loops over prob[-1] and word_tags for the pair number
\* j, counted from 0 in loop order, and the pairs after it     (lines 155-191)
RECURSIVE Expand(_, _, _, _, _, _, _)
Expand(cur_prob, prev, word_tags, word, last, bigramProb, j) ==
    IF j >= Len(prev) * Len(word_tags) THEN cur_prob
    ELSE LET e == prev[(j \div Len(word_tags)) + 1]
             prevTag == e[1][1]
             prev_prob == e[2]
             tag == word_tags[(j % Len(word_tags)) + 1]
             kept == /\ <<word, tag, "W">> \in DOMAIN bigramProb
                     /\ <<tag, prevTag, "T">> \in DOMAIN bigramProb
                     /\ last => <<TAG_END, tag, "T">> \in DOMAIN bigramProb
             cur_prob_val ==
                 LET wt == FMul(FMul(prev_prob, bigramProb[<<word, tag, "W">>]),
                                bigramProb[<<tag, prevTag, "T">>])
                 IN IF last THEN FMul(wt, bigramProb[<<TAG_END, tag, "T">>])
                    ELSE wt
         IN Expand(IF kept THEN OPut(cur_prob, <<tag, prevTag>>, cur_prob_val)
                   ELSE cur_prob,
                   prev, word_tags, word, last, bigramProb, j + 1)

\* The state after the command line and TrainingSet.txt are read (lines 25-49)
TaggingInitWith(corpora, test_files) ==
    \E lines \in corpora, test \in test_files :
        /\ tagging = [pc |-> "train", lines |-> lines, test_file |-> test,
                      n |-> 1, unigramTagCount |-> <<>>, bigramCount |-> EmptyDict,
                      bigramProb |-> EmptyDict, tags |-> EmptyDict,
                      words |-> <<>>, prob |-> <<>>, most_common_tag |-> None,
                      order |-> EmptyDict, i |-> 0, best_tag |-> None,
                      prevTag |-> None, out |-> <<>>, fallbacks |-> {},
                      printed |-> <<>>]
        /\ viterbi = Idle
        /\ bigram = Idle

\* One pass of "for sentence in lines"                          (lines 53-94)
TaggingTrain ==
    /\ tagging.pc = "train"
    /\ tagging.n <= Len(tagging.lines)
    /\ LET r == TagCountSentence(tagging.tags, tagging.unigramTagCount,
                                 tagging.bigramCount, tagging.lines[tagging.n])
       IN tagging' = [tagging EXCEPT !.n = @ + 1, !.tags = r.tags,
                                     !.unigramTagCount = r.uni,
                                     !.bigramCount = r.bc]
    /\ UNCHANGED <<viterbi, bigram>>

\* bigramProb; with a test file: words, prob, most_common_tag   (lines 99-126)
TaggingEstimate ==
    /\ tagging.pc = "train"
    /\ tagging.n > Len(tagging.lines)
    /\ LET bp == TagBigramProb(tagging.unigramTagCount, tagging.bigramCount)
           words == tagging.test_file
       IN IF tagging.test_file = NoTestFile
          THEN tagging' = [tagging EXCEPT !.pc = "display", !.bigramProb = bp]
          ELSE IF tagging.unigramTagCount = <<>>
          THEN tagging' = [tagging EXCEPT !.pc = "error", !.bigramProb = bp,
                                          !.words = words]
          ELSE tagging' = [tagging EXCEPT
                  !.pc = "decode", !.bigramProb = bp, !.words = words,
                  !.prob = << <<<<<<TAG_START, None>>, <<1, 1>>>>>> >>,
                  !.most_common_tag = MostCommonTag(tagging.unigramTagCount),
                  !.i = 0]
    /\ UNCHANGED <<viterbi, bigram>>

\* list(tags[word]): the order the run iterates the word's tag set in, the
\* same each time the word comes up                             (line 139)
WordTagLists(word) ==
    IF word \in DOMAIN tagging.order THEN {tagging.order[word]}
    ELSE Orders(tagging.tags[word])

\* One pass of "for i in range(len(words))"                     (lines 130-194)
TaggingDecode ==
    /\ tagging.pc = "decode"
    /\ tagging.i < Len(tagging.words)
    /\ LET word == tagging.words[tagging.i + 1]
           prev == tagging.prob[Len(tagging.prob)]
       IN IF word \in DOMAIN tagging.tags
          THEN \E word_tags \in WordTagLists(word) :
                  tagging' = [tagging EXCEPT
                      !.i = @ + 1,
                      !.order = Put(@, word, word_tags),
                      !.prob = Append(@, Expand(<<>>, prev, word_tags, word,
                                                tagging.i = Len(tagging.words) - 1,
                                                tagging.bigramProb, 0))]
          ELSE IF prev = <<>>
          THEN tagging' = [tagging EXCEPT
                  !.i = @ + 1, !.prob = Append(@, <<>>),
                  !.fallbacks = @ \cup {"unseen-word"}]
          ELSE tagging' = [tagging EXCEPT
                  !.pc = "error", !.fallbacks = @ \cup {"unseen-word"}]
    /\ UNCHANGED <<viterbi, bigram>>

\* best_tag, prevTag of the last table; first piece of out      (lines 197-200)
TaggingBest ==
    /\ tagging.pc = "decode"
    /\ tagging.i >= Len(tagging.words)
    /\ LET last == tagging.prob[Len(tagging.prob)]
           key == OArgmax(last, OKeys(last))
       IN IF last = <<>>
          THEN tagging' = [tagging EXCEPT !.pc = "error"]
          ELSE tagging' = [tagging EXCEPT
                  !.pc = "back", !.i = Len(tagging.words) - 2,
                  !.best_tag = key[1], !.prevTag = key[2],
                  !.out = <<<<tagging.words[Len(tagging.words)], key[1]>>>>]
    /\ UNCHANGED <<viterbi, bigram>>

\* One pass of "for i in reversed(range(len(words) - 1))"       (lines 203-222)
TaggingBacktrace ==
    /\ tagging.pc = "back"
    /\ tagging.i >= 0
    /\ LET word == tagging.words[tagging.i + 1]
           word_prob == tagging.prob[tagging.i + 2]
           word_prob_list == SelectSeq(OKeys(word_prob),
                                       LAMBDA k : k[1] = tagging.prevTag)
           key == IF Len(word_prob_list) > 0
                  THEN OArgmax(word_prob, word_prob_list)
                  ELSE <<tagging.prevTag, tagging.most_common_tag>>
       IN tagging' = [tagging EXCEPT
              !.i = @ - 1, !.best_tag = key[1], !.prevTag = key[2],
              !.out = <<<<word, key[1]>>>> \o @,
              !.fallbacks = IF Len(word_prob_list) > 0 THEN @
                            ELSE @ \cup {"backtrace"}]
    /\ UNCHANGED <<viterbi, bigram>>

\* print("RESULT:\n" + out)                                     (line 225)
TaggingPrint ==
    /\ tagging.pc = "back"
    /\ tagging.i < 0
    /\ tagging' = [tagging EXCEPT !.pc = "done", !.printed = <<tagging.out>>]
    /\ UNCHANGED <<viterbi, bigram>>

\* The dump of bigram counts and probabilities                  (lines 229-241)
TaggingDisplay ==
    /\ tagging.pc = "display"
    /\ tagging' = [tagging EXCEPT
           !.pc = "done",
           !.printed = <<tagging.bigramCount, tagging.bigramProb>>]
    /\ UNCHANGED <<viterbi, bigram>>

TaggingNext ==
    \/ TaggingTrain
    \/ TaggingEstimate
    \/ TaggingDecode
    \/ TaggingBest
    \/ TaggingBacktrace
    \/ TaggingPrint
    \/ TaggingDisplay

\* python tagging.py [<input-test-file>] on corpora of one-letter words with
\* one-letter tags.
TaggingInit ==
    TaggingInitWith(
        SeqsUpTo(SeqsUpTo(LetterTokens, 0, MaxTagSentLen), 0, MaxTagLines),
        {NoTestFile} \cup SeqsUpTo(LetterWords, 1, MaxWords))

SpecTagging == TaggingInit /\ [][TaggingNext]_vars

\* python tagging.py [<input-test-file>] on the one-sentence corpus, given
\* once or more, and the pieces of its sentence.
TaggingMinimalInit ==
    TaggingInitWith(
        SeqsUpTo({MinimalSentence}, 0, MaxMinimalLines),
        {NoTestFile} \cup SubSentences(MinimalTest))

SpecTaggingMinimal == TaggingMinimalInit /\ [][TaggingNext]_vars

(***************************************************************************)
(* Claims about tagging.py                                                 *)
(***************************************************************************)
\* The run has left the training loop with a test sentence to decode.
TaggingDecoding ==
    /\ tagging.pc \in {"decode", "back", "done", "error"}
    /\ tagging.test_file # NoTestFile

\* The run has ended, by printing or by an uncaught exception.
TaggingEnded == tagging.pc \in {"done", "error"} /\ tagging.test_file # NoTestFile

\* The tags t for which the pair word_t occurs in the training corpus.
ObservedTags(word) ==
    {k[2] : k \in {x \in DOMAIN tagging.bigramCount : x[3] = "W" /\ x[1] = word}}

\* The estimated probability under key k, 0 for a pair never seen.
ProbOf(k) ==
    IF k \in DOMAIN tagging.bigramProb THEN tagging.bigramProb[k] ELSE <<0, 1>>

\* product over i <= n of P(word_i|t_i) * P(t_i|t_(i-1)), t_0 the start marker.
RECURSIVE JointUpTo(_, _, _)
JointUpTo(words, ts, n) ==
    IF n = 0 THEN <<1, 1>>
    ELSE FMul(JointUpTo(words, ts, n - 1),
              FMul(ProbOf(<<words[n], ts[n], "W">>),
                   ProbOf(<<ts[n], IF n = 1 THEN TAG_START ELSE ts[n - 1], "T">>)))

\* The joint probability of a whole tag sequence, end marker included.
Joint(words, ts) ==
    FMul(JointUpTo(words, ts, Len(words)), ProbOf(<<TAG_END, ts[Len(ts)], "T">>))

\* The tag sequences that give each word a tag observed for it.
TagSequences(words) ==
    {ts \in [1 .. Len(words) -> UNION {ObservedTags(words[i]) : i \in 1 .. Len(words)}] :
        \A i \in 1 .. Len(words) : ts[i] \in ObservedTags(words[i])}

\* Some tag sequence has joint probability p > 0 and none has more.
IsBestJoint(words, p) ==
    /\ FLess(<<0, 1>>, p)
    /\ \E ts \in TagSequences(words) : Joint(words, ts) = p
    /\ \A ts \in TagSequences(words) : ~ FLess(p, Joint(words, ts))

\* The tags and the words of the emitted word_tag pieces.
TagsOut == [i \in 1 .. Len(tagging.out) |-> tagging.out[i][2]]

WordsOut == [i \in 1 .. Len(tagging.out) |-> tagging.out[i][1]]

\* C2 (as claimed): the run trained on the single sentence
\* The_DET dog_NOUN runs_VERB and given the test sentence The dog runs ends
\* by printing The_DET dog_NOUN runs_VERB, with no fallback branch taken.
C2_MinimalCorpusDecoded ==
    (/\ TaggingEnded
     /\ tagging.lines = <<MinimalSentence>>
     /\ tagging.test_file = MinimalTest)
    => /\ tagging.pc = "done"
       /\ tagging.fallbacks = {}
       /\ tagging.printed =
             << << <<MinimalTest[1], <<"D", "E", "T">>>>,
                   <<MinimalTest[2], <<"N", "O", "U", "N">>>>,
                   <<MinimalTest[3], <<"V", "E", "R", "B">>>> >> >>

\* C3 (as claimed): when every word of the test sentence occurs in the
\* training corpus and some tag sequence has positive joint probability, the
\* run ends by printing one tag per word, each observed for its word, whose
\* joint probability is the greatest of all such tag sequences.
C3_DecoderOptimal ==
    (/\ TaggingEnded
     /\ \A i \in 1 .. Len(tagging.test_file) :
            ObservedTags(tagging.test_file[i]) # {}
     /\ \E ts \in TagSequences(tagging.test_file) :
            FLess(<<0, 1>>, Joint(tagging.test_file, ts)))
    => /\ tagging.pc = "done"
       /\ WordsOut = tagging.words
       /\ TagsOut \in TagSequences(tagging.words)
       /\ IsBestJoint(tagging.words, Joint(tagging.words, TagsOut))

\* The table the claim expects after an unseen word: each entry of the
\* previous table, in order, under (most common tag, its tag).
RECURSIVE CarriedFrom(_, _, _, _)
CarriedFrom(cur_prob, prev, most_common_tag, j) ==
    IF j > Len(prev) THEN cur_prob
    ELSE CarriedFrom(OPut(cur_prob, <<most_common_tag, prev[j][1][1]>>, prev[j][2]),
                     prev, most_common_tag, j + 1)

UnseenWordAt(i) == tagging.words[i] \notin DOMAIN tagging.tags

\* C4 (as claimed): when a word of the test sentence does not occur in the
\* training corpus, the run does not fail; the table of that word is the
\* previous table carried forward under (most frequent tag, previous tag)
\* with the probabilities unchanged, and a printed result has a tag for
\* every word.
C4_UnseenWordCarried ==
    (/\ TaggingDecoding
     /\ tagging.unigramTagCount # <<>>
     /\ \E i \in 1 .. Len(tagging.test_file) :
            tagging.test_file[i] \notin DOMAIN tagging.tags)
    => /\ tagging.pc # "error"
       /\ \A i \in 1 .. Len(tagging.words) :
              (UnseenWordAt(i) /\ Len(tagging.prob) > i)
              => tagging.prob[i + 1] =
                     CarriedFrom(<<>>, tagging.prob[i], tagging.most_common_tag, 1)
       /\ tagging.pc = "done" => Len(tagging.out) = Len(tagging.words)

\* C9 (as claimed): after the training pass, TagVocabulary[w] is, for every
\* word w of the corpus, exactly the set of tags t with EmissionCounts[(w,t)]
\* > 0, and only words of the corpus have an entry.
C9_TagVocabularyExact ==
    tagging.pc \notin {"idle", "train"}
    => /\ \A w \in DOMAIN tagging.tags : tagging.tags[w] = ObservedTags(w)
       /\ \A k \in DOMAIN tagging.bigramCount :
              k[3] = "W" => k[1] \in DOMAIN tagging.tags

\* The tags of the training corpus and of the words' tag sets.
LatticeTags ==
    {tagging.unigramTagCount[i][1] : i \in 1 .. Len(tagging.unigramTagCount)}
        \cup UNION {tagging.tags[w] : w \in DOMAIN tagging.tags}

\* The greatest of a set of fractions, 0 for the empty set.
FMax(S) ==
    IF S = {} THEN <<0, 1>>
    ELSE CHOOSE x \in S : \A y \in S : ~ FLess(x, y)

\* The tag paths for words 1..i with tag t at word i and predecessor tag p at
\* word i-1, the start marker being the predecessor of word 1.
PathsEnding(i, t, p) ==
    {ts \in [1 .. i -> LatticeTags] :
        /\ ts[i] = t
        /\ IF i = 1 THEN p = TAG_START ELSE ts[i - 1] = p}

\* The greatest joint probability of the paths of PathsEnding(i, t, p), the
\* factor P(end marker|t) included at the last word.
LatticeMax(i, t, p) ==
    FMax({IF i = Len(tagging.words) THEN Joint(tagging.words, ts)
          ELSE JointUpTo(tagging.words, ts, i) : ts \in PathsEnding(i, t, p)})

\* Every word of the test sentence has an entry in tags.
AllWordsSeen ==
    \A i \in 1 .. Len(tagging.words) : tagging.words[i] \in DOMAIN tagging.tags

\* C11 (as claimed): while a sentence of in-vocabulary words is decoded, the
\* table of every word i decoded so far holds under key (t, p) the greatest
\* joint probability of the tag paths for words 1..i that end with tag p at
\* word i-1 and tag t at word i (times P(end marker|t) at the last word),
\* and holds a key exactly when that greatest probability is positive.
C11_LatticeIsMax ==
    (TaggingDecoding /\ AllWordsSeen)
    => \A i \in 1 .. (Len(tagging.prob) - 1) :
           /\ \A j \in 1 .. Len(tagging.prob[i + 1]) :
                  /\ tagging.prob[i + 1][j][1][1] \in LatticeTags
                  /\ tagging.prob[i + 1][j][1][2] \in LatticeTags \cup {TAG_START}
           /\ \A t \in LatticeTags, p \in LatticeTags \cup {TAG_START} :
                  LET m == LatticeMax(i, t, p)
                      present == OHas(tagging.prob[i + 1], <<t, p>>)
                  IN /\ present <=> FLess(<<0, 1>>, m)
                     /\ present => OGet(tagging.prob[i + 1], <<t, p>>) = m

(***************************************************************************)
(* Claims about the good-turing table of bigram.py                         *)
(***************************************************************************)
\* A good-turing run has left the training loop.
GoodTuringRun ==
    /\ bigram.smoothing_type = "good-turing"
    /\ bigram.pc \notin {"idle", "train"}

\* c* for an observed count c, from the counts of counts of bigramCount.
AdjustedCount(c) ==
    IF CountOfCount(bigram.bigramCount, c) # 0
    THEN Frac((c + 1) * CountOfCount(bigram.bigramCount, c + 1),
              CountOfCount(bigram.bigramCount, c))
    ELSE <<0, 1>>

\* C12 (as claimed): for every training corpus, building the good-turing
\* table divides by zero nowhere; the table gives every observed bigram of
\* count c the probability c*/N, with c* = (c+1)*Nc(c+1)/Nc(c) when Nc(c) is
\* nonzero and 0 otherwise and N the sum of all bigram counts, and its
\* unseen entry is Nc(1)/N.
C12_GoodTuringTable ==
    GoodTuringRun
    => /\ bigram.pc # "error"
       /\ LET N == ISum(bigram.bigramCount, DOMAIN bigram.bigramCount)
          IN /\ DOMAIN bigram.bigramProb =
                    DOMAIN bigram.bigramCount \cup {<<None, None>>}
             /\ \A k \in DOMAIN bigram.bigramCount :
                    bigram.bigramProb[k] =
                        FMul(AdjustedCount(bigram.bigramCount[k]), <<1, N>>)
             /\ bigram.bigramProb[<<None, None>>] =
                    Frac(CountOfCount(bigram.bigramCount, 1), N)

(***************************************************************************)
(* Claims about the backtrace of tagging.py                                *)
(***************************************************************************)
\* The run has reached the backtrace: a best final key has been chosen.
InBacktrace ==
    /\ tagging.pc \in {"back", "done"}
    /\ tagging.test_file # NoTestFile

\* The table of word number k of the test sentence.
TableOf(k) == tagging.prob[k + 1]

\* The number in the test sentence of the word of the piece out[j].
WordOfPiece(j) == Len(tagging.words) - Len(tagging.out) + j

\* C13: in every run that reaches the backtrace, the table of the word about
\* to be resolved holds an entry whose tag is the resolved predecessor tag,
\* the most-frequent-tag fallback of the backtrace has not been taken, and
\* every adjacent pair of output tags (t_i, t_(i+1)) is a key (t_(i+1), t_i)
\* of the table of word i+1.
C13_BacktraceLinked ==
    InBacktrace
    => /\ "backtrace" \notin tagging.fallbacks
       /\ (tagging.pc = "back" /\ tagging.i >= 0)
          => \E j \in 1 .. Len(TableOf(tagging.i + 1)) :
                 TableOf(tagging.i + 1)[j][1][1] = tagging.prevTag
       /\ \A j \in 1 .. (Len(tagging.out) - 1) :
              OHas(TableOf(WordOfPiece(j) + 1), <<TagsOut[j + 1], TagsOut[j]>>)

\* C13 witness: a three-word sentence has been printed after two backward
\* steps, and the table of its second word also holds an entry with another
\* tag than the one resolved for that word, which the filter left out.
C13_Witness ==
    /\ InBacktrace
    /\ tagging.pc = "done"
    /\ Len(tagging.words) = 3
    /\ Len(tagging.out) = 3
    /\ \E j \in 1 .. Len(TableOf(2)) : TableOf(2)[j][1][1] # TagsOut[2]
====
